---- MODULE Spec2Model ----
(***************************************************************************)
(* Discovery Manager of the server (src/server/ua_discovery.c): lifecycle  *)
(* state machine, pool of outbound register requests, deferred slot        *)
(* cleanup, table of registered servers.                                   *)
(***************************************************************************)
EXTENDS Integers, Sequences, FiniteSets, TLC

(***************************************************************************)
(* Bounds of the model.                                                    *)
(***************************************************************************)
\* Number of slots of dm->registerRequests (set in ua_discovery.h); kept
\* small here.
UA_MAXREGISTERREQUESTS == 2
\* Largest number of multicast receive connections the advertiser opens.
MaxRecvConnections == 1
\* The monotonic clock is followed for this many cleanup timeouts.
MaxClockPeriods == 1
\* Number of threads that call registerDiscovery and deregisterDiscovery.
MaxThreads == 2
\* Longest queue of delayed callbacks looked at when a client repeats its
\* last notification.
MaxPending == 3

Slots == 0 .. (UA_MAXREGISTERREQUESTS - 1)
NULL == 0
\* Addresses a client can be allocated at.
ClientIds == 1 .. (UA_MAXREGISTERREQUESTS + 1)
Threads == 1 .. MaxThreads
NoThread == 0
RegisterOps == {"registerDiscovery", "deregisterDiscovery"}

LifecycleStates == {"STOPPED", "STARTING", "STARTED", "STOPPING"}
SemaphorePaths == {"", "/tmp/srv.sem"}
ServerUris == {"urn:peer"}
\* The peers that register while the clock and the semaphore files change.
PeerUris == {"urn:peer", "urn:other"}

\* 100 ns ticks of UA_DateTime in a second
UA_DATETIME_SEC == 10000000
\* server->config.discoveryCleanupTimeout as configured, in seconds
CleanupTimeout == 60
\* The values of the monotonic clock looked at: around the multiples of the
\* cleanup timeout, one tick before and one tick after.
ClockValues ==
    {k * CleanupTimeout * UA_DATETIME_SEC + e :
         k \in 0 .. MaxClockPeriods, e \in {-1, 0, 1}} \cap Nat

\* memset(ar, 0, sizeof(asyncRegisterRequest)). Of a slot the model keeps the
\* client; unregister and semaphoreFilePath are only copied into the body of
\* the requests (setupRegisterRequest) and decide no branch.
ZeroSlot == [client |-> NULL]

VARIABLES
    state,                    \* dm->sc.state
    notifyState,              \* dm->sc.notifyState installed?
    freed,                    \* the component has been released by free
    registerRequests,         \* dm->registerRequests[]
    liveClients,              \* clients allocated and not yet deleted
    delayedCallbacks,         \* event loop: queue of one-shot delayed callbacks (slot of the entry)
    repeatedCallbacks,        \* event loop: ids of the registered repeated callbacks
    discoveryCallbackId,      \* dm->discoveryCallbackId
    mdnsEnabled,              \* server->config.mdnsEnabled
    mdnsRecvConnectionsSize,  \* dm->mdnsRecvConnectionsSize
    mdnsSendConnection,       \* dm->mdnsSendConnection
    registeredServers,        \* dm->registeredServers: entries [serverUri, lastSeen, semaphoreFilePath]
    now,                      \* UA_DateTime_nowMonotonic()
    semaphoreFiles,           \* the semaphore files that exist
    discoveryCleanupTimeout,  \* server->config.discoveryCleanupTimeout
    channel,                  \* transport: phase of the secure channel of each slot's client
    outstanding,              \* transport: async service request in flight per slot
    lastOp,                   \* the operation or callback that ran in the last step
    lastRes,                  \* its return value
    cc,                       \* what happened to the caller's UA_ClientConfig
    disconnectCalls,          \* slots on whose client disconnectSecureChannelAsync was called
    sentRequest,              \* service request issued in the last step
    notified,                 \* notifyState calls of the last step, in order
    lastNotified,             \* argument of the latest notifyState call ever made
    observed,                 \* what the callback of the last step was called with
    removalLog,               \* removals the last step logged at INFO: [serverUri, cause]
    serviceMutex,             \* server->serviceMutex: the thread that holds it
    pc,                       \* position of each thread in registerDiscovery / deregisterDiscovery
    call                      \* locals of the call of each thread: [op, ar, client, res, cc]

lifeVars  == <<state, notifyState, freed>>
poolVars  == <<registerRequests, liveClients, delayedCallbacks>>
timerVars == <<repeatedCallbacks, discoveryCallbackId>>
mdnsVars  == <<mdnsEnabled, mdnsRecvConnectionsSize, mdnsSendConnection>>
tableVars == <<registeredServers, now, semaphoreFiles, discoveryCleanupTimeout>>
netVars   == <<channel, outstanding>>
obsVars   == <<lastOp, lastRes, cc, disconnectCalls, sentRequest, notified, lastNotified,
               observed, removalLog>>
threadVars == <<serviceMutex, pc, call>>
vars == <<lifeVars, poolVars, timerVars, mdnsVars, tableVars, netVars, obsVars, threadVars>>

(***************************************************************************)
(* Lifecycle controller.                                                   *)
(***************************************************************************)

\* A drain gate that looks at the multicast connections only.
EffectiveState_skipsPool(target, reqs, recvSize, sendConn) ==
    IF target \in {"STOPPING", "STOPPED"}
    THEN IF recvSize # 0 \/ sendConn # 0 THEN "STOPPING" ELSE "STOPPED"
    ELSE target

\* The drain gate of setState: the state to set for a requested state.
EffectiveState(target, reqs, recvSize, sendConn) ==
    IF target \in {"STOPPING", "STOPPED"}
    THEN IF recvSize # 0 \/ sendConn # 0 \/ (\E i \in Slots : reqs[i].client # NULL)
         THEN "STOPPING"
         ELSE "STOPPED"
    ELSE target

\* A setState without the early return on an unchanged state.
UA_DiscoveryManager_setState_alwaysNotifies(target, reqs, recvSize, sendConn) ==
    LET eff == EffectiveState(target, reqs, recvSize, sendConn)
    IN  [state |-> eff, notified |-> IF notifyState THEN <<eff>> ELSE <<>>]

\* UA_DiscoveryManager_setState: the new dm->sc.state and the notifyState
\* calls made, for the pool and multicast connections as they are at the call.
UA_DiscoveryManager_setState(target, reqs, recvSize, sendConn) ==
    LET eff == EffectiveState(target, reqs, recvSize, sendConn)
    IN  IF eff = state
        THEN [state |-> state, notified |-> <<>>]
        ELSE [state |-> eff, notified |-> IF notifyState THEN <<eff>> ELSE <<>>]

\* Write the outcome of a setState call to the state.
ApplySetState(r) ==
    /\ state' = r.state
    /\ notified' = r.notified
    /\ lastNotified' = IF r.notified = <<>> THEN lastNotified
                       ELSE r.notified[Len(r.notified)]

NoSetState ==
    /\ state' = state
    /\ notified' = <<>>
    /\ lastNotified' = lastNotified

\* The arguments of a callback: the slot of the client and the state
\* notification or the service result it reports; for the cleanup task the
\* entries for whose path buffer UA_malloc failed.
Input(i, cs, st, m, sr, oom) ==
    [slot |-> i, channelState |-> cs, connectStatus |-> st, msm |-> m,
     serviceResult |-> sr, probeFailed |-> oom]

NoInput == Input(-1, "none", "none", "none", "none", {})

\* The locals of a thread that is in neither operation.
NoCall == [op |-> "none", ar |-> -1, client |-> NULL, res |-> "none", cc |-> "none"]

\* An operation or callback that runs from its first to its last line in one
\* step, while no other thread moves.

Observe(op, res, config, disc, sent, input) ==
    /\ lastOp' = op
    /\ lastRes' = res
    /\ cc' = config
    /\ disconnectCalls' = disc
    /\ sentRequest' = sent
    /\ observed' = input
    /\ removalLog' = {}
    /\ UNCHANGED threadVars

(***************************************************************************)
(* Transport of the outbound clients.                                      *)
(***************************************************************************)

\* UA_Client_disconnectSecureChannelAsync on the clients of the slots in S:
\* the channel starts closing (unless it is closing or closed already) and
\* the outstanding service requests are cancelled.
DisconnectedChannel(S) ==
    [i \in Slots |-> IF i \in S /\ channel[i] \in {"connecting", "failing", "open"}
                     THEN "closing" ELSE channel[i]]

DisconnectedOutstanding(S) ==
    [i \in Slots |-> IF i \in S THEN "none" ELSE outstanding[i]]

\* The manager as UA_DiscoveryManager_new leaves it, the configuration of
\* the cleanup timeout aside.
Created ==
    /\ state = "STOPPED"
    /\ notifyState \in BOOLEAN
    /\ freed = FALSE
    /\ registerRequests = [i \in Slots |-> ZeroSlot]
    /\ liveClients = {}
    /\ delayedCallbacks = <<>>
    /\ repeatedCallbacks = {}
    /\ discoveryCallbackId = 0
    /\ mdnsEnabled \in BOOLEAN
    /\ mdnsRecvConnectionsSize = 0
    /\ mdnsSendConnection = 0
    /\ registeredServers = {}
    /\ now = 0
    /\ semaphoreFiles = {}
    /\ channel = [i \in Slots |-> "none"]
    /\ outstanding = [i \in Slots |-> "none"]
    /\ lastOp = "new"
    /\ lastRes = "GOOD"
    /\ cc = "none"
    /\ disconnectCalls = {}
    /\ sentRequest = "none"
    /\ notified = <<>>
    /\ lastNotified = "none"
    /\ observed = NoInput
    /\ removalLog = {}
    /\ serviceMutex = NoThread
    /\ pc = [t \in Threads |-> "idle"]
    /\ call = [t \in Threads |-> NoCall]

Init == Created /\ discoveryCleanupTimeout = CleanupTimeout

\* The manager with the notifyState hook installed.
FairInit == Init /\ notifyState

\* A start that is refused only when the manager is started.
StartAllowed_notStarted(st) == st # "STARTED"

\* start: the check of the lifecycle state on entry
StartAllowed(st) == st = "STOPPED"

\* UA_DiscoveryManager_start; addRes is the result of addRepeatedCallback,
\* recv the number of receive connections the multicast advertiser opens.
UA_DiscoveryManager_start(addRes, recv) ==
    /\ ~freed
    /\ IF ~StartAllowed(state)
       THEN /\ Observe("start", "BADINTERNALERROR", "none", {}, "none", NoInput)
            /\ NoSetState
            /\ UNCHANGED <<notifyState, freed, poolVars, timerVars, mdnsVars, tableVars, netVars>>
       ELSE IF addRes # "GOOD"
       THEN /\ Observe("start", addRes, "none", {}, "none", NoInput)
            /\ NoSetState
            /\ UNCHANGED <<notifyState, freed, poolVars, timerVars, mdnsVars, tableVars, netVars>>
       ELSE LET id == CHOOSE n \in 1 .. (Cardinality(repeatedCallbacks) + 1) :
                          n \notin repeatedCallbacks
                recv2 == IF mdnsEnabled THEN recv ELSE mdnsRecvConnectionsSize
                send2 == IF mdnsEnabled THEN 1 ELSE mdnsSendConnection
            IN  /\ repeatedCallbacks' = repeatedCallbacks \cup {id}
                /\ discoveryCallbackId' = id
                /\ mdnsRecvConnectionsSize' = recv2
                /\ mdnsSendConnection' = send2
                /\ ApplySetState(UA_DiscoveryManager_setState(
                                     "STARTED", registerRequests, recv2, send2))
                /\ Observe("start", "GOOD", "none", {}, "none", NoInput)
                /\ UNCHANGED <<notifyState, freed, poolVars, mdnsEnabled, tableVars, netVars>>

\* A stop that does not skip the free slots.
StopDisconnects_all(reqs) == Slots

\* stop: the slots whose client gets UA_Client_disconnectSecureChannelAsync
StopDisconnects(reqs) == {i \in Slots : reqs[i].client # NULL}

\* A stop that leaves the cleanup callback registered.
CallbacksAfterStop_kept(callbacks, id) == callbacks

\* stop: removeCallback(server, dm->discoveryCallbackId)
CallbacksAfterStop(callbacks, id) == callbacks \ {id}

\* UA_DiscoveryManager_stop
UA_DiscoveryManager_stop ==
    /\ ~freed
    /\ IF state # "STARTED"
       THEN /\ Observe("stop", "void", "none", {}, "none", NoInput)
            /\ NoSetState
            /\ UNCHANGED <<notifyState, freed, poolVars, timerVars, mdnsVars, tableVars, netVars>>
       ELSE LET occupied == StopDisconnects(registerRequests)
            IN  /\ repeatedCallbacks' =
                       CallbacksAfterStop(repeatedCallbacks, discoveryCallbackId)
                /\ channel' = DisconnectedChannel(occupied)
                /\ outstanding' = DisconnectedOutstanding(occupied)
                /\ ApplySetState(UA_DiscoveryManager_setState(
                                     "STOPPED", registerRequests,
                                     mdnsRecvConnectionsSize, mdnsSendConnection))
                /\ Observe("stop", "void", "none", occupied, "none", NoInput)
                /\ UNCHANGED <<notifyState, freed, poolVars, discoveryCallbackId, mdnsVars, tableVars>>

\* A free that is refused only when the manager is started.
FreeAllowed_notStarted(st) == st # "STARTED"

\* free: the check of the lifecycle state on entry
FreeAllowed(st) == st = "STOPPED"

\* UA_DiscoveryManager_free
UA_DiscoveryManager_free ==
    /\ ~freed
    /\ IF ~FreeAllowed(state)
       THEN /\ Observe("free", "BADINTERNALERROR", "none", {}, "none", NoInput)
            /\ UNCHANGED <<freed, registeredServers>>
       ELSE /\ Observe("free", "GOOD", "none", {}, "none", NoInput)
            /\ registeredServers' = {}
            /\ freed' = TRUE
    /\ NoSetState
    /\ UNCHANGED <<notifyState, poolVars, timerVars, mdnsVars, netVars,
                   now, semaphoreFiles, discoveryCleanupTimeout>>

(***************************************************************************)
(* Table of registered servers and its cleanup.                            *)
(***************************************************************************)

\* The RegisterServer service handler of this server: a peer registers
\* (isOnline) or unregisters; lastSeen of its entry is the current time.
Service_RegisterServer(uri, path, isOnline) ==
    /\ ~freed
    /\ state = "STARTED"
    /\ LET others == {e \in registeredServers : e.serverUri # uri}
       IN  registeredServers' =
               IF isOnline
               THEN others \cup {[serverUri |-> uri, lastSeen |-> now,
                                  semaphoreFilePath |-> path]}
               ELSE others
    /\ Observe("Service_RegisterServer", "GOOD", "none", {}, "none", NoInput)
    /\ NoSetState
    /\ UNCHANGED <<notifyState, freed, poolVars, timerVars, mdnsVars, netVars,
                   now, semaphoreFiles, discoveryCleanupTimeout>>

\* The probe of the semaphore file of entry e: the entry has a path, the
\* buffer for it could be allocated and no file exists at the path.
semaphoreDeleted(e, files, oom) ==
    /\ e.semaphoreFilePath # ""
    /\ e \notin oom
    /\ e.semaphoreFilePath \notin files

\* A cleanup that also removes the entries whose age is the timeout exactly.
TimedOutEntries_inclusive(table, t, timeout, files, oom) ==
    LET timedOut == IF timeout # 0 THEN t - timeout * UA_DATETIME_SEC ELSE t
    IN  {e \in table : \/ semaphoreDeleted(e, files, oom)
                       \/ (timeout # 0 /\ e.lastSeen <= timedOut)}

\* The entries UA_DiscoveryManager_cleanupTimedOut removes from the table at
\* time t; oom are the entries for whose path buffer UA_malloc fails.
TimedOutEntries(table, t, timeout, files, oom) ==
    LET timedOut == IF timeout # 0 THEN t - timeout * UA_DATETIME_SEC ELSE t
    IN  {e \in table : \/ semaphoreDeleted(e, files, oom)
                       \/ (timeout # 0 /\ e.lastSeen < timedOut)}

\* The INFO messages of the removals: the URI of the server and whether the
\* deleted semaphore file or the timeout is given as the cause.
RemovalMessages(removed, files, oom) ==
    {[serverUri |-> e.serverUri,
      cause |-> IF semaphoreDeleted(e, files, oom) THEN "semaphore" ELSE "timeout"] :
         e \in removed}

\* UA_DiscoveryManager_cleanupTimedOut, run by the event loop while the
\* repeated callback is registered.
UA_DiscoveryManager_cleanupTimedOut(oom) ==
    LET removed == TimedOutEntries(registeredServers, now, discoveryCleanupTimeout,
                                   semaphoreFiles, oom)
        failed == {e \in oom : e.semaphoreFilePath # ""}
    IN
    /\ repeatedCallbacks # {}
    /\ registeredServers' = registeredServers \ removed
    /\ lastOp' = "cleanupTimedOut"
    /\ lastRes' = "void"
    /\ cc' = "none"
    /\ disconnectCalls' = {}
    /\ sentRequest' = "none"
    /\ observed' = Input(-1, "none", "none", "none", "none", failed)
    /\ removalLog' = RemovalMessages(removed, semaphoreFiles, oom)
    /\ UNCHANGED threadVars
    /\ NoSetState
    /\ UNCHANGED <<notifyState, freed, poolVars, timerVars, mdnsVars, netVars,
                   now, semaphoreFiles, discoveryCleanupTimeout>>

(***************************************************************************)
(* Register at a discovery server.                                         *)
(***************************************************************************)

\* UA_Client_newWithConfig: the address of the new client.
NewClient == CHOOSE c \in ClientIds : c \notin liveClients

\* A register that is refused only when the manager is stopped.
ManagerRunning_notStopped(isFreed, st) == ~isFreed /\ st # "STOPPED"

\* register: the discovery manager exists and is running
ManagerRunning(isFreed, st) == ~isFreed /\ st = "STARTED"

\* A slot search that falls back to the first slot when the pool is full.
FreeSlot_noFullCheck(reqs) ==
    IF \E i \in Slots : reqs[i].client = NULL
    THEN CHOOSE i \in Slots : /\ reqs[i].client = NULL
                              /\ \A k \in Slots : reqs[k].client = NULL => i <= k
    ELSE 0

\* register: the first free slot of the pool, -1 if there is none
FreeSlot(reqs) ==
    IF \E i \in Slots : reqs[i].client = NULL
    THEN CHOOSE i \in Slots : /\ reqs[i].client = NULL
                              /\ \A k \in Slots : reqs[k].client = NULL => i <= k
    ELSE -1

\* UA_Server_register, called by op (registerDiscovery or deregisterDiscovery)
\* newOK: UA_Client_newWithConfig succeeds; connectRes: the result of
\* __UA_Client_connect(client, async).
UA_Server_register(op, unregister, semaphoreFilePath, newOK, connectRes) ==
    LET i == FreeSlot(registerRequests)
    IN
    /\ NoSetState
    /\ UNCHANGED <<notifyState, freed, delayedCallbacks, timerVars, mdnsVars, tableVars, outstanding>>
    /\ IF ~ManagerRunning(freed, state) \/ i = -1
       THEN \* no discovery manager, not started, or no free slot
            /\ Observe(op, "BADINTERNALERROR", "cleared", {}, "none", NoInput)
            /\ UNCHANGED <<registerRequests, liveClients, channel>>
       ELSE     IF ~newOK
                THEN /\ Observe(op, "BADOUTOFMEMORY", "cleared", {}, "none", NoInput)
                     /\ UNCHANGED <<registerRequests, liveClients, channel>>
                ELSE /\ registerRequests' =
                            [registerRequests EXCEPT ![i] =
                                [client |-> NewClient]]
                     /\ liveClients' = liveClients \cup {NewClient}
                     /\ channel' = [channel EXCEPT ![i] =
                                       IF connectRes = "GOOD" THEN "connecting"
                                       ELSE "failing"]
                     /\ Observe(op, connectRes, "zeroed", {}, "none", NoInput)

UA_Server_registerDiscovery(semaphoreFilePath, newOK, connectRes) ==
    UA_Server_register("registerDiscovery", FALSE, semaphoreFilePath, newOK, connectRes)

UA_Server_deregisterDiscovery(newOK, connectRes) ==
    UA_Server_register("deregisterDiscovery", TRUE, "", newOK, connectRes)

\* A cleanup that does not evaluate the drain gate again.
asyncRegisterRequest_clear_noGate(i) ==
    /\ liveClients' = liveClients \ {registerRequests[i].client}
    /\ registerRequests' = [registerRequests EXCEPT ![i] = ZeroSlot]
    /\ NoSetState

\* asyncRegisterRequest_clear on slot i
asyncRegisterRequest_clear(i) ==
    LET reqs == [registerRequests EXCEPT ![i] = ZeroSlot]
    IN  /\ liveClients' = liveClients \ {registerRequests[i].client}
        /\ registerRequests' = reqs
        /\ ApplySetState(UA_DiscoveryManager_setState(
                             state, reqs, mdnsRecvConnectionsSize, mdnsSendConnection))

\* A cleanup that runs on the stack of the caller.
asyncRegisterRequest_clearSync(i) ==
    /\ delayedCallbacks' = delayedCallbacks
    /\ asyncRegisterRequest_clear(i)

\* asyncRegisterRequest_clearAsync: el->addDelayedCallback(&ar->cleanupCallback)
asyncRegisterRequest_clearAsync(i) ==
    /\ delayedCallbacks' = Append(delayedCallbacks, i)
    /\ UNCHANGED <<registerRequests, liveClients>>
    /\ NoSetState

\* What a callback of a client does: schedule the cleanup of the slot, call
\* an async service, disconnect the secure channel.
NoReaction == [clearAsync |-> FALSE, request |-> "none", disconnect |-> FALSE]

\* A state callback that never schedules the cleanup of the slot.
discoveryClientStateCallback_noCleanup(channelState, connectStatus, msm, res) ==
    IF connectStatus # "GOOD" THEN NoReaction
    ELSE IF channelState # "OPEN" THEN NoReaction
    ELSE IF msm # "SIGNANDENCRYPT" THEN NoReaction
    ELSE [clearAsync |-> FALSE, request |-> "RegisterServer",
          disconnect |-> (res # "GOOD")]

\* A state callback that schedules the cleanup on every failed connect status.
discoveryClientStateCallback_anyFailure(channelState, connectStatus, msm, res) ==
    IF connectStatus # "GOOD"
    THEN [NoReaction EXCEPT !.clearAsync = TRUE]
    ELSE IF channelState # "OPEN" THEN NoReaction
    ELSE IF msm # "SIGNANDENCRYPT" THEN NoReaction
    ELSE [clearAsync |-> FALSE, request |-> "RegisterServer",
          disconnect |-> (res # "GOOD")]

\* A state callback that does not wait for the encrypted channel.
discoveryClientStateCallback_anyOpen(channelState, connectStatus, msm, res) ==
    IF connectStatus # "GOOD"
    THEN [NoReaction EXCEPT !.clearAsync = (channelState = "CLOSED")]
    ELSE IF channelState # "OPEN" THEN NoReaction
    ELSE [clearAsync |-> FALSE, request |-> "RegisterServer",
          disconnect |-> (res # "GOOD")]

\* discoveryClientStateCallback for the observed channel state, connect
\* status and security mode; res is the result of __UA_Client_AsyncService.
discoveryClientStateCallback(channelState, connectStatus, msm, res) ==
    IF connectStatus # "GOOD"
    THEN [NoReaction EXCEPT !.clearAsync = (channelState = "CLOSED")]
    ELSE IF channelState # "OPEN" THEN NoReaction
    ELSE IF msm # "SIGNANDENCRYPT" THEN NoReaction
    ELSE [clearAsync |-> FALSE, request |-> "RegisterServer",
          disconnect |-> (res # "GOOD")]

\* A response handler that falls back to RegisterServer2 on every failure.
registerAsyncResponse_fallbackOnError(serviceResult, res) ==
    IF serviceResult = "GOOD"
    THEN [NoReaction EXCEPT !.disconnect = TRUE]
    ELSE [clearAsync |-> FALSE, request |-> "RegisterServer2",
          disconnect |-> (res # "GOOD")]

\* registerAsyncResponse for the service result of the response; res is the
\* result of __UA_Client_AsyncService for RegisterServer2.
registerAsyncResponse(serviceResult, res) ==
    IF serviceResult = "GOOD"
    THEN [NoReaction EXCEPT !.disconnect = TRUE]
    ELSE IF serviceResult # "BADNOTIMPLEMENTED" /\ serviceResult # "BADSERVICEUNSUPPORTED"
    THEN [NoReaction EXCEPT !.disconnect = TRUE]
    ELSE [clearAsync |-> FALSE, request |-> "RegisterServer2",
          disconnect |-> (res # "GOOD")]

\* register2AsyncResponse
register2AsyncResponse(serviceResult) ==
    [NoReaction EXCEPT !.disconnect = TRUE]

\* The notifications (channel state, connect status, security mode) the
\* client of a slot can deliver in a phase of its channel, each with the
\* phase that follows.
BadStatus == {"BADCONNECTIONCLOSED", "BADTIMEOUT"}

Notification(cs, st, m, nxt) ==
    [channelState |-> cs, connectStatus |-> st, msm |-> m, next |-> nxt]

TransportNotifications(phase) ==
    CASE phase = "connecting" ->
             {Notification(cs, "GOOD", "NONE", "connecting") :
                  cs \in {"CLOSED", "CONNECTING", "OPEN", "CLOSING"}}
             \cup {Notification("OPEN", "GOOD", "SIGNANDENCRYPT", "open")}
             \cup {Notification(cs, st, "INVALID", "failing") :
                  cs \in {"CONNECTING", "CLOSING"}, st \in BadStatus}
             \cup {Notification("CLOSED", st, "INVALID", "closed") : st \in BadStatus}
      [] phase = "failing" ->
             {Notification("CLOSING", st, "INVALID", "failing") : st \in BadStatus}
             \cup {Notification("CLOSED", st, "INVALID", "closed") : st \in BadStatus}
      [] phase = "closing" ->
             {Notification("CLOSING", st, "INVALID", "closing") : st \in BadStatus}
             \cup {Notification("CLOSED", st, "INVALID", "closed") : st \in BadStatus}
      [] OTHER -> {}

\* discoveryClientStateCallback run for the client of slot i and the
\* notification n.
StateCallback(i, n, res) ==
    /\ registerRequests[i].client # NULL
    /\ LET r == discoveryClientStateCallback(n.channelState, n.connectStatus, n.msm, res)
       IN  /\ IF r.clearAsync
              THEN asyncRegisterRequest_clearAsync(i)
              ELSE UNCHANGED poolVars /\ NoSetState
           /\ channel' = [channel EXCEPT ![i] = IF r.disconnect THEN "closing" ELSE n.next]
           /\ outstanding' = [outstanding EXCEPT ![i] =
                                 IF r.disconnect THEN "none"
                                 ELSE IF r.request # "none" THEN r.request
                                 ELSE @]
           /\ Observe("discoveryClientStateCallback", "void", "none",
                      IF r.disconnect THEN {i} ELSE {}, r.request,
                      Input(i, n.channelState, n.connectStatus, n.msm, "none", {}))
    /\ UNCHANGED <<notifyState, freed, timerVars, mdnsVars, tableVars>>

\* The client of slot i calls the state callback with notification n.
ClientStateNotify(i, n, res) ==
    /\ n \in TransportNotifications(channel[i])
    /\ StateCallback(i, n, res)

\* The client of slot i delivers the response to RegisterServer.
RegisterServerResponse(i, serviceResult, res) ==
    /\ registerRequests[i].client # NULL
    /\ channel[i] = "open"
    /\ outstanding[i] = "RegisterServer"
    /\ LET r == registerAsyncResponse(serviceResult, res)
       IN  /\ channel' = [channel EXCEPT ![i] = IF r.disconnect THEN "closing" ELSE @]
           /\ outstanding' = [outstanding EXCEPT ![i] =
                                 IF r.disconnect THEN "none" ELSE r.request]
           /\ Observe("registerAsyncResponse", "void", "none",
                      IF r.disconnect THEN {i} ELSE {}, r.request,
                      Input(i, "none", "none", "none", serviceResult, {}))
    /\ NoSetState
    /\ UNCHANGED <<notifyState, freed, poolVars, timerVars, mdnsVars, tableVars>>

\* The client of slot i delivers the response to RegisterServer2.
RegisterServer2Response(i, serviceResult) ==
    /\ registerRequests[i].client # NULL
    /\ channel[i] = "open"
    /\ outstanding[i] = "RegisterServer2"
    /\ LET r == register2AsyncResponse(serviceResult)
       IN  /\ channel' = [channel EXCEPT ![i] = IF r.disconnect THEN "closing" ELSE @]
           /\ outstanding' = [outstanding EXCEPT ![i] =
                                 IF r.disconnect THEN "none" ELSE r.request]
           /\ Observe("register2AsyncResponse", "void", "none",
                      IF r.disconnect THEN {i} ELSE {}, r.request,
                      Input(i, "none", "none", "none", serviceResult, {}))
    /\ NoSetState
    /\ UNCHANGED <<notifyState, freed, poolVars, timerVars, mdnsVars, tableVars>>

\* The event loop runs the first delayed callback of its queue.
RunDelayedCallback ==
    /\ delayedCallbacks # <<>>
    /\ LET i == Head(delayedCallbacks)
       IN  /\ delayedCallbacks' = Tail(delayedCallbacks)
           /\ asyncRegisterRequest_clear(i)
           /\ channel' = [channel EXCEPT ![i] = "none"]
           /\ outstanding' = [outstanding EXCEPT ![i] = "none"]
           /\ Observe("asyncRegisterRequest_clear", "void", "none", {}, "none",
                      Input(i, "none", "none", "none", "none", {}))
    /\ UNCHANGED <<notifyState, freed, timerVars, mdnsVars, tableVars>>

(***************************************************************************)
(* Multicast connections.                                                  *)
(***************************************************************************)

\* A multicast connection has closed: it is removed and the drain gate is
\* evaluated again with the current state.
MulticastConnectionClosed(kind) ==
    LET recv2 == IF kind = "recv" THEN mdnsRecvConnectionsSize - 1
                 ELSE mdnsRecvConnectionsSize
        send2 == IF kind = "send" THEN 0 ELSE mdnsSendConnection
    IN  /\ ~freed
        /\ IF kind = "recv" THEN mdnsRecvConnectionsSize > 0 ELSE mdnsSendConnection # 0
        /\ mdnsRecvConnectionsSize' = recv2
        /\ mdnsSendConnection' = send2
        /\ ApplySetState(UA_DiscoveryManager_setState(
                             state, registerRequests, recv2, send2))
        /\ Observe("mdnsConnectionClosed", "void", "none", {}, "none", NoInput)
        /\ UNCHANGED <<notifyState, freed, poolVars, timerVars, mdnsEnabled, tableVars, netVars>>

StatusInputs == {"GOOD", "BADOUTOFMEMORY"}
ServiceResults == {"GOOD", "BADNOTIMPLEMENTED", "BADSERVICEUNSUPPORTED", "BADTIMEOUT"}

\* The operations on the table of registered servers.
NextTable ==
    \/ \E uri \in ServerUris, isOnline \in BOOLEAN :
           Service_RegisterServer(uri, "", isOnline)
    \/ \E oom \in SUBSET registeredServers : UA_DiscoveryManager_cleanupTimedOut(oom)

\* The lifecycle, the pool of register requests and their clients, the
\* multicast connections.
NextPool ==
    \/ \E addRes \in StatusInputs, recv \in 0 .. MaxRecvConnections :
           UA_DiscoveryManager_start(addRes, recv)
    \/ UA_DiscoveryManager_stop
    \/ UA_DiscoveryManager_free
    \/ \E path \in SemaphorePaths, newOK \in BOOLEAN, connectRes \in StatusInputs :
           UA_Server_registerDiscovery(path, newOK, connectRes)
    \/ \E newOK \in BOOLEAN, connectRes \in StatusInputs :
           UA_Server_deregisterDiscovery(newOK, connectRes)
    \/ \E i \in Slots :
           \E n \in TransportNotifications(channel[i]) :
               \E res \in (IF n.next = "open" THEN StatusInputs ELSE {"GOOD"}) :
                   ClientStateNotify(i, n, res)
    \/ \E i \in Slots, serviceResult \in ServiceResults, res \in StatusInputs :
           RegisterServerResponse(i, serviceResult, res)
    \/ \E i \in Slots, serviceResult \in ServiceResults :
           RegisterServer2Response(i, serviceResult)
    \/ RunDelayedCallback
    \/ \E kind \in {"recv", "send"} : MulticastConnectionClosed(kind)

Next == NextPool \/ NextTable

Spec == Init /\ [][Next]_vars

(***************************************************************************)
(* The table of registered servers while the clock advances and semaphore  *)
(* files come and go.                                                      *)
(***************************************************************************)

\* The monotonic clock has advanced to t.
AdvanceClock(t) ==
    /\ t \in ClockValues
    /\ t > now
    /\ now' = t
    /\ Observe("clock", "void", "none", {}, "none", NoInput)
    /\ NoSetState
    /\ UNCHANGED <<notifyState, freed, poolVars, timerVars, mdnsVars, netVars,
                   registeredServers, semaphoreFiles, discoveryCleanupTimeout>>

\* A registered server creates its semaphore file.
CreateSemaphoreFile(path) ==
    /\ path # ""
    /\ path \notin semaphoreFiles
    /\ semaphoreFiles' = semaphoreFiles \cup {path}
    /\ Observe("createFile", "void", "none", {}, "none", NoInput)
    /\ NoSetState
    /\ UNCHANGED <<notifyState, freed, poolVars, timerVars, mdnsVars, netVars,
                   registeredServers, now, discoveryCleanupTimeout>>

\* A registered server deletes its semaphore file.
DeleteSemaphoreFile(path) ==
    /\ path \in semaphoreFiles
    /\ semaphoreFiles' = semaphoreFiles \ {path}
    /\ Observe("deleteFile", "void", "none", {}, "none", NoInput)
    /\ NoSetState
    /\ UNCHANGED <<notifyState, freed, poolVars, timerVars, mdnsVars, netVars,
                   registeredServers, now, discoveryCleanupTimeout>>

\* The manager without the notifyState hook, the age-out enabled or disabled.
TableInit ==
    /\ Created
    /\ ~notifyState
    /\ discoveryCleanupTimeout \in {0, CleanupTimeout}

NextClock ==
    \/ \E addRes \in StatusInputs, recv \in 0 .. MaxRecvConnections :
           UA_DiscoveryManager_start(addRes, recv)
    \/ UA_DiscoveryManager_stop
    \/ \E kind \in {"recv", "send"} : MulticastConnectionClosed(kind)
    \/ \E uri \in PeerUris, path \in SemaphorePaths, isOnline \in BOOLEAN :
           Service_RegisterServer(uri, path, isOnline)
    \/ \E oom \in SUBSET registeredServers : UA_DiscoveryManager_cleanupTimedOut(oom)
    \/ \E t \in ClockValues : AdvanceClock(t)
    \/ \E path \in SemaphorePaths : CreateSemaphoreFile(path)
    \/ \E path \in SemaphorePaths : DeleteSemaphoreFile(path)

TableSpec == TableInit /\ [][NextClock]_vars

(***************************************************************************)
(* registerDiscovery and deregisterDiscovery called from several threads:  *)
(* the lines of UA_Server_register between UA_LOCK and UA_UNLOCK, one step *)
(* for each access to the manager.                                         *)
(***************************************************************************)

\* A lock that lets every thread in.
MutexFree_always(holder) == TRUE

\* UA_LOCK(&server->serviceMutex) returns when no thread holds the mutex.
MutexFree(holder) == holder = NoThread

Inside == {"check", "find", "new", "connect", "unlock"}

\* Thread t calls registerDiscovery or deregisterDiscovery.
ThreadCall(t, op) ==
    /\ pc[t] = "idle"
    /\ pc' = [pc EXCEPT ![t] = "lock"]
    /\ call' = [call EXCEPT ![t] = [NoCall EXCEPT !.op = op]]
    /\ UNCHANGED <<lifeVars, poolVars, timerVars, mdnsVars, tableVars, netVars,
                   obsVars, serviceMutex>>

\* UA_LOCK(&server->serviceMutex)
ThreadLock(t) ==
    /\ pc[t] = "lock"
    /\ MutexFree(serviceMutex)
    /\ serviceMutex' = t
    /\ pc' = [pc EXCEPT ![t] = "check"]
    /\ UNCHANGED <<lifeVars, poolVars, timerVars, mdnsVars, tableVars, netVars,
                   obsVars, call>>

\* UA_Server_register: the discovery manager exists and is started
ThreadCheckRunning(t) ==
    /\ pc[t] = "check"
    /\ IF ManagerRunning(freed, state)
       THEN /\ pc' = [pc EXCEPT ![t] = "find"]
            /\ call' = call
       ELSE /\ pc' = [pc EXCEPT ![t] = "unlock"]
            /\ call' = [call EXCEPT ![t].res = "BADINTERNALERROR", ![t].cc = "cleared"]
    /\ UNCHANGED <<lifeVars, poolVars, timerVars, mdnsVars, tableVars, netVars,
                   obsVars, serviceMutex>>

\* UA_Server_register: the search for a free slot
ThreadFindSlot(t) ==
    /\ pc[t] = "find"
    /\ LET i == FreeSlot(registerRequests)
       IN  IF i = -1
           THEN /\ pc' = [pc EXCEPT ![t] = "unlock"]
                /\ call' = [call EXCEPT ![t].res = "BADINTERNALERROR",
                                        ![t].cc = "cleared"]
           ELSE /\ pc' = [pc EXCEPT ![t] = "new"]
                /\ call' = [call EXCEPT ![t].ar = i]
    /\ UNCHANGED <<lifeVars, poolVars, timerVars, mdnsVars, tableVars, netVars,
                   obsVars, serviceMutex>>

\* UA_Server_register: ar->client = UA_Client_newWithConfig(cc)
ThreadNewClient(t, newOK) ==
    /\ pc[t] = "new"
    /\ LET i == call[t].ar
           c == IF newOK THEN NewClient ELSE NULL
       IN  /\ registerRequests' = [registerRequests EXCEPT ![i] = [client |-> c]]
           /\ liveClients' = IF newOK THEN liveClients \cup {c} ELSE liveClients
           /\ IF newOK
              THEN /\ pc' = [pc EXCEPT ![t] = "connect"]
                   /\ call' = [call EXCEPT ![t].client = c, ![t].cc = "zeroed"]
              ELSE /\ pc' = [pc EXCEPT ![t] = "unlock"]
                   /\ call' = [call EXCEPT ![t].res = "BADOUTOFMEMORY",
                                           ![t].cc = "cleared"]
    /\ UNCHANGED <<lifeVars, delayedCallbacks, timerVars, mdnsVars, tableVars, netVars,
                   obsVars, serviceMutex>>

\* UA_Server_register: return __UA_Client_connect(ar->client, true)
ThreadConnect(t, connectRes) ==
    /\ pc[t] = "connect"
    /\ channel' = [channel EXCEPT ![call[t].ar] =
                      IF connectRes = "GOOD" THEN "connecting" ELSE "failing"]
    /\ pc' = [pc EXCEPT ![t] = "unlock"]
    /\ call' = [call EXCEPT ![t].res = connectRes]
    /\ UNCHANGED <<lifeVars, poolVars, timerVars, mdnsVars, tableVars, outstanding,
                   obsVars, serviceMutex>>

\* UA_UNLOCK(&server->serviceMutex) and the return to the caller
ThreadUnlock(t) ==
    /\ pc[t] = "unlock"
    /\ serviceMutex' = NoThread
    /\ pc' = [pc EXCEPT ![t] = "idle"]
    /\ call' = [call EXCEPT ![t] = NoCall]
    /\ lastOp' = call[t].op
    /\ lastRes' = call[t].res
    /\ cc' = call[t].cc
    /\ disconnectCalls' = {}
    /\ sentRequest' = "none"
    /\ observed' = Input(call[t].ar, "none", "none", "none", "none", {})
    /\ removalLog' = {}
    /\ NoSetState
    /\ UNCHANGED <<notifyState, freed, poolVars, timerVars, mdnsVars, tableVars, netVars>>

\* The manager without the notifyState hook and without multicast.
ThreadInit == Init /\ ~notifyState /\ ~mdnsEnabled

\* The callbacks of the event loop run while the dispatcher holds the
\* service mutex.
NextThreads ==
    \/ \E t \in Threads, op \in RegisterOps : ThreadCall(t, op)
    \/ \E t \in Threads : ThreadLock(t)
    \/ \E t \in Threads : ThreadCheckRunning(t)
    \/ \E t \in Threads : ThreadFindSlot(t)
    \/ \E t \in Threads, newOK \in BOOLEAN : ThreadNewClient(t, newOK)
    \/ \E t \in Threads, connectRes \in StatusInputs : ThreadConnect(t, connectRes)
    \/ \E t \in Threads : ThreadUnlock(t)
    \/ /\ serviceMutex = NoThread
       /\ \E addRes \in StatusInputs : UA_DiscoveryManager_start(addRes, 0)
    \/ /\ serviceMutex = NoThread
       /\ UA_DiscoveryManager_stop
    \/ /\ serviceMutex = NoThread
       /\ \E i \in Slots :
              \E n \in TransportNotifications(channel[i]) :
                  \E res \in (IF n.next = "open" THEN StatusInputs ELSE {"GOOD"}) :
                      ClientStateNotify(i, n, res)
    \/ /\ serviceMutex = NoThread
       /\ RunDelayedCallback

ThreadSpec == ThreadInit /\ [][NextThreads]_vars

(***************************************************************************)
(* A client that reports the end of its channel more than once.            *)
(***************************************************************************)

\* The client of slot i, its channel closed, calls the state callback with
\* CLOSED and a failed connect status again.
ClosedReportedAgain(i, st) ==
    /\ channel[i] = "closed"
    /\ Len(delayedCallbacks) < MaxPending
    /\ StateCallback(i, Notification("CLOSED", st, "INVALID", "closed"), "GOOD")

NextRepeat ==
    \/ NextPool
    \/ \E i \in Slots, st \in BadStatus : ClosedReportedAgain(i, st)

RepeatSpec == FairInit /\ [][NextRepeat]_vars

(***************************************************************************)
(* Scheduling: the transport answers every request and reports CLOSED for  *)
(* every channel that is closing, the event loop runs every delayed        *)
(* callback, and the multicast connections of a stopping manager close.    *)
(***************************************************************************)
ClosedReported(i) ==
    /\ channel[i] = "closing"
    /\ \E st \in BadStatus :
           ClientStateNotify(i, Notification("CLOSED", st, "INVALID", "closed"), "GOOD")

ResponseDelivered(i) ==
    \/ \E serviceResult \in ServiceResults, res \in StatusInputs :
           RegisterServerResponse(i, serviceResult, res)
    \/ \E serviceResult \in ServiceResults : RegisterServer2Response(i, serviceResult)

MulticastDrained ==
    /\ state = "STOPPING"
    /\ \E kind \in {"recv", "send"} : MulticastConnectionClosed(kind)

\* The client of a slot has a response or the CLOSED notification to deliver
\* (never both: a channel that closes has no request in flight).
TransportProgress(i) == ClosedReported(i) \/ ResponseDelivered(i)

Fairness ==
    /\ \A i \in Slots : WF_vars(TransportProgress(i))
    /\ WF_vars(RunDelayedCallback)
    /\ WF_vars(MulticastDrained)

\* The table of registered servers takes no part in the draining of the
\* pool; it is left as it is.
FairSpec == FairInit /\ [][NextPool]_vars /\ Fairness

(***************************************************************************)
(* Properties.                                                             *)
(***************************************************************************)
Occupied(i) == registerRequests[i].client # NULL
TransportCallbacks ==
    {"discoveryClientStateCallback", "registerAsyncResponse", "register2AsyncResponse"}

\* C1: whenever the lifecycle state is STOPPED, no slot of the pool has a
\* client, no multicast receive connection is open and no multicast send
\* connection is allocated.
StoppedMeansDrained ==
    state = "STOPPED" =>
        /\ \A i \in Slots : registerRequests[i].client = NULL
        /\ mdnsRecvConnectionsSize = 0
        /\ mdnsSendConnection = 0

\* STOPPED has been reached by the cleanup of the last slot after a stop.
StoppedAfterDrain ==
    /\ state = "STOPPED"
    /\ lastOp = "asyncRegisterRequest_clear"
    /\ notified = <<"STOPPED">>

\* C2: after stop has been called the manager eventually is STOPPED, when
\* the transport reports CLOSED for every client asked to disconnect, the
\* multicast connections close and the event loop runs the delayed callbacks.
StopLeadsToStopped == (lastOp = "stop") ~> (state = "STOPPED")

\* stop has just been called with every slot occupied: the manager drains.
StopWithFullPool ==
    /\ lastOp = "stop"
    /\ state = "STOPPING"
    /\ \A i \in Slots : Occupied(i) /\ channel[i] = "closing"

\* C3: notifyState is called exactly once, with the new state, in every step
\* that changes the lifecycle state (when the hook is installed), in no step
\* that leaves it unchanged, and never with the argument of the call before.
NotifyOnStrictChange ==
    [][/\ state' # state => notified' = (IF notifyState THEN <<state'>> ELSE <<>>)
       /\ state' = state => notified' = <<>>
       /\ notified' # <<>> => notified'[1] # lastNotified]_vars

\* a cleanup that found the manager STARTED called setState and notified
\* nothing, after the hook had been called with STARTED.
SetStateWithoutChange ==
    /\ notifyState
    /\ lastOp = "asyncRegisterRequest_clear"
    /\ state = "STARTED"
    /\ lastNotified = "STARTED"
    /\ notified = <<>>

\* C4: stop called in STARTED removes the cleanup callback, disconnects the
\* client of every occupied slot and of no free slot, frees no slot, and
\* leaves the state STOPPING if a slot is occupied or a multicast connection
\* is live, STOPPED otherwise.
StopDisconnectsAndDrains ==
    [][(lastOp' = "stop" /\ state = "STARTED") =>
          /\ repeatedCallbacks' = repeatedCallbacks \ {discoveryCallbackId}
          /\ repeatedCallbacks' = {}
          /\ disconnectCalls' = {i \in Slots : Occupied(i)}
          /\ \A i \in Slots : Occupied(i) => channel'[i] \in {"closing", "closed"}
          /\ registerRequests' = registerRequests
          /\ liveClients' = liveClients
          /\ delayedCallbacks' = delayedCallbacks
          /\ state' = IF \/ \E i \in Slots : Occupied(i)
                         \/ mdnsRecvConnectionsSize' # 0
                         \/ mdnsSendConnection' # 0
                      THEN "STOPPING" ELSE "STOPPED"]_vars

\* stop has disconnected the client of one slot and left the other slot alone.
StopWithOneClient ==
    /\ lastOp = "stop"
    /\ state = "STOPPING"
    /\ disconnectCalls # {}
    /\ disconnectCalls # Slots
    /\ repeatedCallbacks = {}

\* C5: with every slot occupied, registerDiscovery and deregisterDiscovery
\* return BADINTERNALERROR, clear the caller's config, create no client and
\* leave the slots and the lifecycle state unchanged; never more clients are
\* alive than the pool has slots.
FullPoolRefusesRegister ==
    /\ [][(lastOp' \in RegisterOps /\ \A i \in Slots : Occupied(i)) =>
              /\ lastRes' = "BADINTERNALERROR"
              /\ cc' = "cleared"
              /\ liveClients' = liveClients
              /\ registerRequests' = registerRequests
              /\ channel' = channel
              /\ state' = state]_vars
    /\ [](Cardinality(liveClients) <= UA_MAXREGISTERREQUESTS)

\* a register call has been refused by the started manager, its pool full.
RegisterRefusedPoolFull ==
    /\ lastOp \in RegisterOps
    /\ lastRes = "BADINTERNALERROR"
    /\ cc = "cleared"
    /\ state = "STARTED"
    /\ \A i \in Slots : Occupied(i)

\* C6: registerDiscovery and deregisterDiscovery called while the state is
\* not STARTED return BADINTERNALERROR, clear the caller's config, occupy no
\* slot and change neither the state nor a slot.
NotStartedRefusesRegister ==
    [][(lastOp' \in RegisterOps /\ state # "STARTED") =>
          /\ lastRes' = "BADINTERNALERROR"
          /\ cc' = "cleared"
          /\ liveClients' = liveClients
          /\ registerRequests' = registerRequests
          /\ channel' = channel
          /\ state' = state]_vars

\* a register call has been refused by a manager that drains a slot.
RegisterRefusedWhileStopping ==
    /\ lastOp \in RegisterOps
    /\ lastRes = "BADINTERNALERROR"
    /\ cc = "cleared"
    /\ state = "STOPPING"
    /\ \E i \in Slots : Occupied(i)
    /\ \E i \in Slots : ~Occupied(i)

\* C7: start called in a state other than STOPPED returns BADINTERNALERROR,
\* registers no cleanup callback and leaves the state, the pool and the
\* table of registered servers unchanged; called in STOPPED with the
\* callback registered it moves the state to STARTED.
StartOnlyFromStopped ==
    [][/\ (lastOp' = "start" /\ state # "STOPPED") =>
             /\ lastRes' = "BADINTERNALERROR"
             /\ repeatedCallbacks' = repeatedCallbacks
             /\ discoveryCallbackId' = discoveryCallbackId
             /\ state' = state
             /\ registerRequests' = registerRequests
             /\ liveClients' = liveClients
             /\ delayedCallbacks' = delayedCallbacks
             /\ registeredServers' = registeredServers
       /\ (lastOp' = "start" /\ state = "STOPPED" /\ lastRes' = "GOOD") =>
             /\ state' = "STARTED"
             /\ Cardinality(repeatedCallbacks') = Cardinality(repeatedCallbacks) + 1
       /\ (lastOp' = "start" /\ lastRes' = "GOOD") => state = "STOPPED"]_vars

\* start has been refused by a manager that drains a slot and holds a
\* registered server.
StartRefusedWhileStopping ==
    /\ lastOp = "start"
    /\ lastRes = "BADINTERNALERROR"
    /\ state = "STOPPING"
    /\ \E i \in Slots : Occupied(i)
    /\ registeredServers # {}

\* C8: free called in a state other than STOPPED returns BADINTERNALERROR
\* and leaves the table of registered servers, the pool and the state
\* unchanged; the component is released only in STOPPED.
FreeOnlyWhenStopped ==
    [][/\ (lastOp' = "free" /\ state # "STOPPED") =>
             /\ lastRes' = "BADINTERNALERROR"
             /\ freed' = freed
             /\ registeredServers' = registeredServers
             /\ registerRequests' = registerRequests
             /\ liveClients' = liveClients
             /\ delayedCallbacks' = delayedCallbacks
             /\ state' = state
       /\ (freed' /\ ~freed) => (state = "STOPPED" /\ lastOp' = "free")
       /\ (lastOp' = "free" /\ state = "STOPPED" /\ ~freed) =>
             (lastRes' = "GOOD" /\ freed' /\ registeredServers' = {})]_vars

\* free has been refused by a manager that drains a slot and holds a
\* registered server.
FreeRefusedWhileStopping ==
    /\ lastOp = "free"
    /\ lastRes = "BADINTERNALERROR"
    /\ ~freed
    /\ state = "STOPPING"
    /\ \E i \in Slots : Occupied(i)
    /\ registeredServers # {}

\* C9: a slot whose client has a request in flight or a channel that closes
\* is eventually free again, when the transport answers every request and
\* reports CLOSED after a disconnect and the event loop runs the delayed
\* callbacks; the cleanup of a slot of a STARTED manager leaves the state
\* STARTED and calls notifyState not at all.
SlotEventuallyReclaimed ==
    /\ \A i \in Slots :
           (Occupied(i) /\ channel[i] \in {"open", "closing", "closed"})
               ~> ~Occupied(i)
    /\ [][(lastOp' = "asyncRegisterRequest_clear" /\ state = "STARTED") =>
              (state' = "STARTED" /\ notified' = <<>>)]_vars

\* the cleanup has freed the last slot of a manager that is STARTED.
ReclaimedWhileStarted ==
    /\ lastOp = "asyncRegisterRequest_clear"
    /\ state = "STARTED"
    /\ liveClients = {}
    /\ \A i \in Slots : ~Occupied(i) /\ channel[i] = "none"

\* C10: no slot goes from occupied to free in a step of the client state
\* callback, of a response handler or of stop; a slot is freed only by the
\* delayed cleanup callback, which was queued before the step that runs it.
ReclaimOnlyDeferred ==
    [][/\ lastOp' \in TransportCallbacks \cup {"stop"} =>
             /\ \A i \in Slots : Occupied(i) => registerRequests'[i] = registerRequests[i]
             /\ liveClients' = liveClients
       /\ \A i \in Slots :
             (Occupied(i) /\ registerRequests'[i].client = NULL) =>
                 /\ lastOp' = "asyncRegisterRequest_clear"
                 /\ delayedCallbacks # <<>>
                 /\ Head(delayedCallbacks) = i
                 /\ delayedCallbacks' = Tail(delayedCallbacks)]_vars

\* the state callback has queued the cleanup of a slot that still has its
\* client.
CleanupQueuedByCallback ==
    /\ lastOp = "discoveryClientStateCallback"
    /\ delayedCallbacks # <<>>
    /\ Occupied(delayedCallbacks[Len(delayedCallbacks)])
    /\ channel[delayedCallbacks[Len(delayedCallbacks)]] = "closed"

\* C11: the cleanup of a slot is scheduled only by the state callback called
\* with channel state CLOSED and a failed connect status for the client of
\* that slot; stop, the response handlers and a state callback called with
\* another channel state schedule nothing and free no slot; a slot is freed
\* only after CLOSED has been reported for its client.
CleanupOnlyAfterClosed ==
    /\ [][/\ \A i \in Slots :
               delayedCallbacks' = Append(delayedCallbacks, i) =>
                   /\ lastOp' = "discoveryClientStateCallback"
                   /\ observed'.slot = i
                   /\ observed'.channelState = "CLOSED"
                   /\ observed'.connectStatus # "GOOD"
          /\ Len(delayedCallbacks') > Len(delayedCallbacks) =>
                 \E i \in Slots : delayedCallbacks' = Append(delayedCallbacks, i)
          /\ lastOp' \in {"stop", "registerAsyncResponse", "register2AsyncResponse"} =>
                 /\ delayedCallbacks' = delayedCallbacks
                 /\ registerRequests' = registerRequests
          /\ (lastOp' = "discoveryClientStateCallback"
                 /\ observed'.channelState # "CLOSED") =>
                 /\ delayedCallbacks' = delayedCallbacks
                 /\ registerRequests' = registerRequests
          /\ \A i \in Slots :
                 (Occupied(i) /\ registerRequests'[i].client = NULL) =>
                     channel[i] = "closed"]_vars
    /\ [](\A k \in DOMAIN delayedCallbacks : channel[delayedCallbacks[k]] = "closed")

\* after stop has asked the client to disconnect, the state callback has seen
\* CLOSING with a failed connect status and has scheduled nothing.
ClosingReportedNoCleanup ==
    /\ lastOp = "discoveryClientStateCallback"
    /\ observed.channelState = "CLOSING"
    /\ observed.connectStatus \in BadStatus
    /\ state = "STOPPING"
    /\ Occupied(observed.slot)
    /\ channel[observed.slot] = "closing"
    /\ delayedCallbacks = <<>>

\* C12: the state callback calls the RegisterServer service exactly when it
\* is called with connect status GOOD, channel state OPEN and security mode
\* SignAndEncrypt; called with anything else it sends no request and
\* disconnects no client; no other operation sends RegisterServer.
RegisterOnlyOnEncryptedOpen ==
    [][/\ lastOp' = "discoveryClientStateCallback" =>
             LET encryptedOpen == /\ observed'.connectStatus = "GOOD"
                                  /\ observed'.channelState = "OPEN"
                                  /\ observed'.msm = "SIGNANDENCRYPT"
             IN  /\ sentRequest' = (IF encryptedOpen THEN "RegisterServer" ELSE "none")
                 /\ ~encryptedOpen =>
                        /\ disconnectCalls' = {}
                        /\ outstanding' = outstanding
       /\ sentRequest' = "RegisterServer" => lastOp' = "discoveryClientStateCallback"]_vars

\* the state callback has seen OPEN on the channel without encryption and
\* has sent nothing.
OpenUnencryptedWaits ==
    /\ lastOp = "discoveryClientStateCallback"
    /\ observed.channelState = "OPEN"
    /\ observed.connectStatus = "GOOD"
    /\ observed.msm = "NONE"
    /\ sentRequest = "none"
    /\ disconnectCalls = {}
    /\ channel[observed.slot] = "connecting"
    /\ outstanding[observed.slot] = "none"

\* C13: RegisterServer2 is called only by the handler of a RegisterServer
\* response with service result BADNOTIMPLEMENTED or BADSERVICEUNSUPPORTED,
\* once for such a response; for GOOD and for every other result the handler
\* disconnects the client of the slot and sends nothing; the handler of a
\* RegisterServer2 response disconnects the client whatever the result and
\* sends nothing, and no request of the slot is left in flight.
FallbackOnlyOnUnsupported ==
    [][/\ sentRequest' = "RegisterServer2" =>
             /\ lastOp' = "registerAsyncResponse"
             /\ observed'.serviceResult \in {"BADNOTIMPLEMENTED", "BADSERVICEUNSUPPORTED"}
       /\ lastOp' = "registerAsyncResponse" =>
             IF observed'.serviceResult \in {"BADNOTIMPLEMENTED", "BADSERVICEUNSUPPORTED"}
             THEN /\ sentRequest' = "RegisterServer2"
                  /\ disconnectCalls' \subseteq {observed'.slot}
             ELSE /\ sentRequest' = "none"
                  /\ disconnectCalls' = {observed'.slot}
                  /\ outstanding'[observed'.slot] = "none"
       /\ lastOp' = "register2AsyncResponse" =>
             /\ sentRequest' = "none"
             /\ disconnectCalls' = {observed'.slot}
             /\ outstanding'[observed'.slot] = "none"
       /\ lastOp' \in {"registerAsyncResponse", "register2AsyncResponse"} =>
             /\ delayedCallbacks' = delayedCallbacks
             /\ \A i \in Slots \ {observed'.slot} :
                    channel'[i] = channel[i] /\ outstanding'[i] = outstanding[i]]_vars

\* the fallback request has been answered with a failure: the client is
\* disconnected and nothing is sent again.
FallbackFailedNoRetry ==
    /\ lastOp = "register2AsyncResponse"
    /\ observed.serviceResult = "BADTIMEOUT"
    /\ sentRequest = "none"
    /\ disconnectCalls = {observed.slot}
    /\ channel[observed.slot] = "closing"
    /\ outstanding[observed.slot] = "none"

\* The age of an entry of the table, in ticks of the monotonic clock.
Age(e) == now - e.lastSeen

\* The probe of the last cleanup tick found the semaphore file of e missing.
ConfirmedMissing(e, failed) ==
    /\ e.semaphoreFilePath # ""
    /\ e \notin failed
    /\ e.semaphoreFilePath \notin semaphoreFiles

ProbeErrorNeverEvicts ==
    [][lastOp' = "cleanupTimedOut" =>
          \A e \in observed'.probeFailed : e \in registeredServers']_vars

\* C16: a cleanup tick removes no entry that has a semaphore file path while
\* the file exists, however old the entry is.
ExistingSemaphoreFileKeepsEntry ==
    [][lastOp' = "cleanupTimedOut" =>
          \A e \in registeredServers :
              (e.semaphoreFilePath # "" /\ e.semaphoreFilePath \in semaphoreFiles) =>
                  e \in registeredServers']_vars

\* C17: the repeated cleanup callback is registered exactly while the state
\* is STARTED, and never more than once; a successful start registers one
\* and stores its id, stop called in STARTED removes it; the cleanup task
\* runs, and removes entries of the table, only while the state is STARTED.
CleanupCallbackWhileStarted ==
    /\ [](repeatedCallbacks # {} <=> state = "STARTED")
    /\ [](Cardinality(repeatedCallbacks) <= 1)
    /\ [][/\ (lastOp' = "start" /\ lastRes' = "GOOD") =>
                 /\ repeatedCallbacks = {}
                 /\ repeatedCallbacks' = {discoveryCallbackId'}
          /\ (lastOp' = "stop" /\ state = "STARTED") => repeatedCallbacks' = {}
          /\ lastOp' # "start" => repeatedCallbacks' \subseteq repeatedCallbacks
          /\ (lastOp' = "cleanupTimedOut" \/ removalLog' # {}) => state = "STARTED"
          /\ state \in {"STOPPING", "STOPPED"} =>
                 registeredServers' = registeredServers]_vars

\* the manager has been started again, holding the servers registered while
\* it was started before, with one cleanup callback.
StartedAgainOneCallback ==
    /\ lastOp = "start"
    /\ lastRes = "GOOD"
    /\ state = "STARTED"
    /\ registeredServers # {}
    /\ repeatedCallbacks = {discoveryCallbackId}

\* C18: of the threads that call registerDiscovery and deregisterDiscovery
\* at most one is between UA_LOCK and UA_UNLOCK, and it holds the service
\* mutex; two calls never set up the same slot; a call that returns GOOD
\* leaves its client in the slot it found free, a slot of no other call; no
\* client is lost by being overwritten; every return, the error returns
\* included, releases the mutex.
SlotSetupExclusive ==
    /\ [](\A t \in Threads : pc[t] \in Inside <=> serviceMutex = t)
    /\ [](\A t1, t2 \in Threads :
             (t1 # t2 /\ call[t1].ar # -1 /\ call[t2].ar # -1) =>
                 call[t1].ar # call[t2].ar)
    /\ [](liveClients = {registerRequests[i].client : i \in {k \in Slots : Occupied(k)}})
    /\ [](\A i, k \in Slots :
             (i # k /\ Occupied(i)) => registerRequests[i].client # registerRequests[k].client)
    /\ [][\A t \in Threads :
             (pc[t] = "unlock" /\ pc'[t] = "idle") =>
                 /\ serviceMutex = t
                 /\ serviceMutex' = NoThread
                 /\ lastRes' = call[t].res
                 /\ call[t].res = "GOOD" =>
                        /\ call[t].ar \in Slots
                        /\ call[t].client # NULL
                        /\ registerRequests'[call[t].ar].client = call[t].client]_vars

\* a call returns an error and releases the mutex while the call of another
\* thread that found the pool full waits for it, every slot set up by the
\* calls before.
ErrorReturnWhileOtherWaits ==
    \E t1, t2 \in Threads :
        /\ t1 # t2
        /\ pc[t1] = "unlock"
        /\ call[t1].res = "BADINTERNALERROR"
        /\ serviceMutex = t1
        /\ pc[t2] = "lock"
        /\ \A i \in Slots : Occupied(i)

\* C19: a registerDiscovery or deregisterDiscovery that returns a status
\* other than GOOD leaves every slot as it was: the call occupies no slot.
FailedRegisterOccupiesNoSlot ==
    [][(lastOp' \in RegisterOps /\ lastRes' # "GOOD") =>
          /\ registerRequests' = registerRequests
          /\ liveClients' = liveClients]_vars

\* C20: the cleanup callback of a slot is never queued while it is queued
\* already, whatever the client of the slot reports.
CleanupQueuedOnce ==
    \A j, k \in DOMAIN delayedCallbacks :
        j # k => delayedCallbacks[j] # delayedCallbacks[k]

\* C21: after every operation and callback, a manager in state STOPPING has
\* a slot with a client or a live multicast connection; the cleanup that
\* frees the last slot of a stopping manager without multicast connections
\* sets the state to STOPPED in the same step, and so does the close of the
\* last multicast connection when no slot has a client.
StoppingMeansResidualWork ==
    /\ [](state = "STOPPING" =>
             \/ \E i \in Slots : Occupied(i)
             \/ mdnsRecvConnectionsSize # 0
             \/ mdnsSendConnection # 0)
    /\ [][(/\ state = "STOPPING"
           /\ \A i \in Slots : registerRequests'[i].client = NULL
           /\ mdnsRecvConnectionsSize' = 0
           /\ mdnsSendConnection' = 0) =>
              /\ state' = "STOPPED"
              /\ lastOp' \in {"asyncRegisterRequest_clear", "mdnsConnectionClosed"}]_vars

\* the cleanup has freed the last slot of a stopping manager whose multicast
\* send connection is still allocated: the state stays STOPPING.
LastSlotFreedMulticastLive ==
    /\ lastOp = "asyncRegisterRequest_clear"
    /\ state = "STOPPING"
    /\ \A i \in Slots : ~Occupied(i)
    /\ liveClients = {}
    /\ mdnsSendConnection # 0
====
